---- MODULE Spec2Model ----
(***************************************************************************)
(* The Oracle APEX MCP relay (src/server.js; src/unnamed/part_000 is the   *)
(* same server without the second CORS middleware and the debug tool       *)
(* routes).  An Express application: express.json(), cors(), middleware,   *)
(* and the route POST /sse/tools/call, which checks a bearer key, obtains  *)
(* an OAuth token upstream, fetches a product listing upstream, parses the *)
(* nested payload of every item and answers with the projected list.       *)
(*                                                                         *)
(* JavaScript runs each handler to its next await without interruption, so *)
(* one action is one such run: the arrival of a request up to the first    *)
(* fetch, the continuation after the token response, the continuation      *)
(* after the products response.  Requests interleave at those points.      *)
(*                                                                         *)
(* Strings the code inspects character by character (the Authorization     *)
(* header, the key, the token) are sequences of one-character strings.     *)
(***************************************************************************)
EXTENDS Integers, Sequences, FiniteSets, TLC

VARIABLES
    scenario,    \* which population of clients and upstream answers is explored
    build,       \* which of the two source files is running
    env,         \* process.env: [MCP_API_KEY]
    pc,          \* pc[r]: where request r's handler stands
    req,         \* req[r]: the inbound request (method, path, authorization, body)
    stages,      \* stages[r]: the middleware and handlers that ran for r, in order
    resp,        \* resp[r]: the responses sent for r, in order
    calls,       \* calls[r]: the upstream calls issued for r, in order
    inflight,    \* inflight[r]: the upstream calls of r not yet answered
    tokRes,      \* tokRes[r]: the token endpoint's answer received by r
    apexToken,   \* apexToken[r]: the handler's local apexToken
    prodRes,     \* prodRes[r]: the products endpoint's answer received by r
    arrivals,    \* requests received so far
    nAdmitted,   \* requests that passed the auth gate so far
    nTokenCalls, \* calls received by the token endpoint so far
    nProductsCalls \* calls received by the products endpoint so far

vars == <<scenario, build, env, pc, req, stages, resp, calls, inflight, tokRes,
          apexToken, prodRes, arrivals, nAdmitted, nTokenCalls, nProductsCalls>>

----------------------------------------------------------------------------
(* Bounds of the exploration *)

\* requests received in one run
MaxRequests == 3
\* characters of an Authorization header after its scheme
MaxTail == 3
\* items of an upstream listing
MaxItems == 3
\* largest limit a caller supplies
MaxLimit == 2

----------------------------------------------------------------------------
(* JavaScript values: undefined and strings *)

JsUndefined == [t |-> "undefined", v |-> <<>>]
JsStr(s) == [t |-> "string", v |-> s]

\* a === b
StrictEq(a, b) == a.t = b.t /\ a.v = b.v

\* !a for undefined and strings: undefined and "" are falsy
Falsy(a) == a.t = "undefined" \/ (a.t = "string" /\ a.v = <<>>)

\* `${a}` : a template literal's conversion
ToStr(a) == IF a.t = "undefined"
            THEN <<"u", "n", "d", "e", "f", "i", "n", "e", "d">>
            ELSE a.v

BearerSp == <<"B", "e", "a", "r", "e", "r", " ">>

\* s.startsWith(p)
StartsWith(s, p) == Len(s) >= Len(p) /\ SubSeq(s, 1, Len(p)) = p

\* s.split(" "): the pieces between single spaces, empty pieces included
RECURSIVE SplitFrom(_, _, _)
SplitFrom(s, i, cur) ==
    IF i > Len(s) THEN <<cur>>
    ELSE IF s[i] = " " THEN <<cur>> \o SplitFrom(s, i + 1, <<>>)
    ELSE SplitFrom(s, i + 1, Append(cur, s[i]))

Split(s) == SplitFrom(s, 1, <<>>)

\* a[i] of a JavaScript array, zero-based: undefined past the end
At(a, i) == IF i + 1 <= Len(a) THEN JsStr(a[i + 1]) ELSE JsUndefined

----------------------------------------------------------------------------
(* The auth gate of POST /sse/tools/call *)

\* The handler's two checks: "401", "403" or "admit"
Gate(authHeader, key) ==
    IF Falsy(authHeader) \/ ~StartsWith(authHeader.v, BearerSp) THEN "401"
    ELSE LET token == At(Split(authHeader.v), 1)
         IN  IF ~StrictEq(token, key) THEN "403" ELSE "admit"

----------------------------------------------------------------------------
(* Upstream answers.  A body is raw text, or a JSON document given by its   *)
(* parsed value; res.text() yields the raw text and res.json() parses.     *)

\* the raw bodies the token endpoint answers with
TokenBodyTexts ==
    { "{\"access_token\":\"t1\"}", "{\"access_token\":\"t2\"}",
      "{\"access_token\":\"\"}", "{}", "invalid_client" }

\* JSON.parse of a token body: threw, or the access_token of the object
TokenJson(text) ==
    CASE text = "{\"access_token\":\"t1\"}" ->
            [threw |-> FALSE, access_token |-> JsStr(<<"t", "1">>)]
      [] text = "{\"access_token\":\"t2\"}" ->
            [threw |-> FALSE, access_token |-> JsStr(<<"t", "2">>)]
      [] text = "{\"access_token\":\"\"}" ->
            [threw |-> FALSE, access_token |-> JsStr(<<>>)]
      [] text = "{}" ->
            [threw |-> FALSE, access_token |-> JsUndefined]
      [] OTHER ->
            [threw |-> TRUE, access_token |-> JsUndefined]

\* the raw nested payloads (dane_produktu) of upstream items
PayloadTexts ==
    { "{\"nazwa\":\"A\",\"ocena\":\"5\",\"cena\":\"1\",\"liczba_sprzedanych\":\"9\"}",
      "{\"nazwa\":\"B\",\"cena\":\"2\"}",
      "{\"nazwa\":",
      "null" }

Fields == {"nazwa", "ocena", "cena", "liczba_sprzedanych"}

\* JSON.parse of a nested payload: threw, null, or an object's fields
JSONParse(text) ==
    CASE text = "{\"nazwa\":\"A\",\"ocena\":\"5\",\"cena\":\"1\",\"liczba_sprzedanych\":\"9\"}" ->
            [threw |-> FALSE, isNull |-> FALSE,
             obj |-> [nazwa |-> JsStr(<<"A">>), ocena |-> JsStr(<<"5">>),
                      cena |-> JsStr(<<"1">>), liczba_sprzedanych |-> JsStr(<<"9">>)]]
      [] text = "{\"nazwa\":\"B\",\"cena\":\"2\"}" ->
            [threw |-> FALSE, isNull |-> FALSE,
             obj |-> [nazwa |-> JsStr(<<"B">>), ocena |-> JsUndefined,
                      cena |-> JsStr(<<"2">>), liczba_sprzedanych |-> JsUndefined]]
      [] text = "null" ->
            [threw |-> FALSE, isNull |-> TRUE,
             obj |-> [f \in Fields |-> JsUndefined]]
      [] OTHER ->
            [threw |-> TRUE, isNull |-> FALSE,
             obj |-> [f \in Fields |-> JsUndefined]]

Items == [dane_produktu : PayloadTexts, url : {JsStr(<<"u">>)}]

Listings(n) == UNION {[1..k -> Items] : k \in 0..n}

TextBody(t) == [kind |-> "text", text |-> t, hasItems |-> FALSE, items |-> <<>>]
JsonBody(has, its) == [kind |-> "json", text |-> "", hasItems |-> has, items |-> its]

\* an upstream answer: fetch rejected (no answer; body holds the error's text),
\* or a response with its ok flag and body
Res(rejected, ok, body) == [rejected |-> rejected, ok |-> ok, body |-> body]

NoRes == Res(FALSE, FALSE, "none")
NoProdRes == Res(FALSE, FALSE, TextBody("none"))

----------------------------------------------------------------------------
(* Errors and results of the two upstream helpers *)

Err(kind, text) == [kind |-> kind, text |-> text]
NoErr == Err("none", "")

\* getAccessToken without its `if (!res.ok) throw`: the body is parsed whatever
\* the status
GetAccessTokenResultNoCheck(res) ==
    IF res.rejected
    THEN [threw |-> TRUE, err |-> Err("FetchError", res.body), value |-> JsUndefined]
    ELSE LET data == TokenJson(res.body)
         IN  IF data.threw
             THEN [threw |-> TRUE, err |-> Err("SyntaxError", ""), value |-> JsUndefined]
             ELSE [threw |-> FALSE, err |-> NoErr, value |-> data.access_token]

\* getAccessToken after the token endpoint answered res
GetAccessTokenResult(res) ==
    IF res.rejected
    THEN [threw |-> TRUE, err |-> Err("FetchError", res.body), value |-> JsUndefined]
    ELSE IF ~res.ok THEN [threw |-> TRUE, err |-> Err("Error", res.body), value |-> JsUndefined]
    ELSE LET data == TokenJson(res.body)
         IN  IF data.threw
             THEN [threw |-> TRUE, err |-> Err("SyntaxError", ""), value |-> JsUndefined]
             ELSE [threw |-> FALSE, err |-> NoErr, value |-> data.access_token]

\* the callback with the parse wrapped in a try/catch that yields an empty
\* object: a payload that does not parse gives a product of undefined fields
ProjectItemLenient(item) ==
    LET dane == JSONParse(item.dane_produktu)
    IN  [threw |-> FALSE, err |-> NoErr,
         product |-> [nazwa |-> dane.obj.nazwa, ocena |-> dane.obj.ocena,
                      cena |-> dane.obj.cena,
                      liczba_sprzedanych |-> dane.obj.liczba_sprzedanych,
                      url |-> item.url]]

\* the callback of data.items.map
ProjectItem(item) ==
    LET dane == JSONParse(item.dane_produktu)
    IN  IF dane.threw THEN [threw |-> TRUE, err |-> Err("SyntaxError", ""), product |-> <<>>]
        ELSE IF dane.isNull THEN [threw |-> TRUE, err |-> Err("TypeError", ""), product |-> <<>>]
        ELSE [threw |-> FALSE, err |-> NoErr,
              product |-> [nazwa |-> dane.obj.nazwa, ocena |-> dane.obj.ocena,
                           cena |-> dane.obj.cena,
                           liczba_sprzedanych |-> dane.obj.liczba_sprzedanych,
                           url |-> item.url]]

\* data.items.map(...): the items in order, stopping at the first that throws
RECURSIVE MapFrom(_, _, _)
MapFrom(items, i, acc) ==
    IF i > Len(items) THEN [threw |-> FALSE, err |-> NoErr, value |-> acc]
    ELSE LET p == ProjectItem(items[i])
         IN  IF p.threw THEN [threw |-> TRUE, err |-> p.err, value |-> <<>>]
             ELSE MapFrom(items, i + 1, Append(acc, p.product))

\* data.items.slice(0, 1).map(...): the list cut to a fixed length
MapItemsTruncated(items) ==
    MapFrom(IF Len(items) > 1 THEN SubSeq(items, 1, 1) ELSE items, 1, <<>>)

MapItems(items) == MapFrom(items, 1, <<>>)

\* fetchProducts after the products endpoint answered res
FetchProductsResult(res) ==
    IF res.rejected
    THEN [threw |-> TRUE, err |-> Err("FetchError", res.body.text), value |-> <<>>]
    ELSE IF ~res.ok THEN [threw |-> TRUE, err |-> Err("Error", res.body.text), value |-> <<>>]
    ELSE IF res.body.kind # "json"
         THEN [threw |-> TRUE, err |-> Err("SyntaxError", ""), value |-> <<>>]
    ELSE IF ~res.body.hasItems
         THEN [threw |-> TRUE, err |-> Err("TypeError", ""), value |-> <<>>]
    ELSE MapItems(res.body.items)

\* JSON.stringify of one product: undefined fields are left out
SerializeProduct(p) ==
    [f \in {g \in DOMAIN p : p[g].t # "undefined"} |-> p[f].v]

SerializeProducts(ps) == [i \in 1..Len(ps) |-> SerializeProduct(ps[i])]

\* a response: status, kind of body, the error text or the product list
Response(status, kind, error, products) ==
    [status |-> status, kind |-> kind, error |-> error, products |-> products]

----------------------------------------------------------------------------
(* Clients and upstream: the inputs each scenario draws from.              *)
(*   "gate":       one request at a time, every header shape and key       *)
(*   "listing":    one request at a time, every listing and limit          *)
(*   "concurrent": two requests in flight, a few inputs of each kind       *)

Scenarios == {"gate", "listing", "concurrent"}
Builds == {"server.js", "part_000"}

Slots == {1, 2}
SlotsOf(scn) == IF scn = "concurrent" THEN Slots ELSE {1}

Methods == {"GET", "POST", "OPTIONS"}
Paths == {"/", "/sse/tools/list", "/sse/tools/call", "/mcp/debug",
          "/mcp/tools/list", "/mcp/tools/call", "/nope"}

KeyK == JsStr(<<"k">>)
Keys == {JsUndefined, JsStr(<<>>), KeyK, JsStr(<<"k", "x">>)}
KeysOf(scn) == IF scn = "gate" THEN Keys ELSE {KeyK}

TailChars == {"k", "x", " "}
Tails(n) == UNION {[1..k -> TailChars] : k \in 0..n}
Heads == { BearerSp,
           <<"B", "e", "a", "r", "e", "r">>,
           <<"b", "e", "a", "r", "e", "r", " ">>,
           <<"B", "a", "s", "i", "c", " ">> }
\* Node's HTTP parser strips the whitespace around a field value before it
\* reaches req.headers
Trimmed(s) == s = <<>> \/ (s[1] # " " /\ s[Len(s)] # " ")
Headers(n) ==
    {JsUndefined, JsStr(<<>>)}
    \cup {JsStr(s) : s \in {u \in {h \o t : h \in Heads, t \in Tails(n)} : Trimmed(u)}}

BearerK == JsStr(BearerSp \o <<"k">>)
FewHeaders == {JsUndefined, BearerK, JsStr(BearerSp \o <<"x">>)}

\* the request body as express.json() sees it: none, JSON it rejects, or a
\* JSON object with or without a limit
NoBody == [kind |-> "none", hasLimit |-> FALSE, limit |-> 0]
BadBody == [kind |-> "malformed", hasLimit |-> FALSE, limit |-> 0]
ObjBody == [kind |-> "json", hasLimit |-> FALSE, limit |-> 0]
LimitBody(n) == [kind |-> "json", hasLimit |-> TRUE, limit |-> n]

Request(m, p, a, b) == [method |-> m, path |-> p, authorization |-> a, body |-> b]
NoReq == Request("none", "none", JsUndefined, NoBody)

Probes == {Request(m, p, a, b) : m \in Methods, p \in Paths,
                                 a \in {JsUndefined, BearerK}, b \in {NoBody, BadBody}}

RequestsOf(scn) ==
    CASE scn = "gate" ->
            {Request("POST", "/sse/tools/call", a, NoBody) : a \in Headers(MaxTail)}
            \cup Probes
      [] scn = "listing" ->
            {Request("POST", "/sse/tools/call", BearerK, b) :
                b \in {NoBody, ObjBody} \cup {LimitBody(n) : n \in 0..MaxLimit}}
            \cup {Request("OPTIONS", "/sse/tools/call", JsUndefined, NoBody),
                  Request("GET", "/sse/tools/list", JsUndefined, NoBody),
                  Request("GET", "/nope", JsUndefined, NoBody),
                  Request("POST", "/sse/tools/call", JsUndefined, NoBody),
                  Request("POST", "/sse/tools/call", BearerK, BadBody)}
      [] OTHER ->
            {Request("POST", "/sse/tools/call", a, NoBody) : a \in FewHeaders}
            \cup {Request("OPTIONS", "/sse/tools/call", BearerK, NoBody),
                  Request("GET", "/sse/tools/list", JsUndefined, NoBody),
                  Request("GET", "/nope", JsUndefined, NoBody),
                  Request("POST", "/sse/tools/call", BearerK, BadBody)}

TokenResponses ==
    {Res(FALSE, ok, b) : ok \in BOOLEAN, b \in TokenBodyTexts}
    \cup {Res(TRUE, FALSE, "ECONNREFUSED")}

FewListings == {<<>>} \cup {<<i>> : i \in Items}
ListingsOf(scn) == IF scn = "listing" THEN Listings(MaxItems) ELSE FewListings

ProductResponsesOf(scn) ==
    {Res(FALSE, TRUE, JsonBody(TRUE, l)) : l \in ListingsOf(scn)}
    \cup {Res(FALSE, TRUE, JsonBody(FALSE, <<>>)),
          Res(FALSE, TRUE, TextBody("<html>")),
          Res(FALSE, FALSE, TextBody("ORA-00942")),
          Res(TRUE, FALSE, TextBody("ECONNREFUSED"))}

----------------------------------------------------------------------------
(* The routes each build registers; app.all matches every method *)

Handler(b, m, p) ==
    CASE m = "GET" /\ p = "/sse/tools/list" -> "toolsList"
      [] m = "POST" /\ p = "/sse/tools/call" -> "toolsCall"
      [] p = "/mcp/debug" -> "debug"
      [] b = "server.js" /\ m = "GET" /\ p = "/mcp/tools/list" -> "debugToolsList"
      [] b = "server.js" /\ m = "POST" /\ p = "/mcp/tools/call" -> "debugToolsCall"
      [] b = "server.js" /\ m = "GET" /\ p = "/" -> "root"
      [] OTHER -> "none"

\* the chain with cors({preflightContinue: true}): cors() passes OPTIONS on
ChainPreflightContinue(b, rq) ==
    IF rq.body.kind = "malformed" THEN <<"express.json">>
    ELSE IF b = "server.js" /\ rq.method = "OPTIONS"
         THEN <<"express.json", "cors", "corsFix">>
    ELSE (IF b = "server.js" THEN <<"express.json", "cors", "corsFix", "log">>
                             ELSE <<"express.json", "cors", "log">>)
         \o <<Handler(b, rq.method, rq.path)>>

\* The middleware that run for a request, in order, ending with the one that
\* answers it; the last element names who answers.
Chain(b, rq) ==
    IF rq.body.kind = "malformed" THEN <<"express.json">>
    ELSE IF rq.method = "OPTIONS" THEN <<"express.json", "cors">>
    ELSE (IF b = "server.js" THEN <<"express.json", "cors", "corsFix", "log">>
                             ELSE <<"express.json", "cors", "log">>)
         \o <<Handler(b, rq.method, rq.path)>>

Last(s) == s[Len(s)]

----------------------------------------------------------------------------
(* State after construction: the server listens, no request is in flight *)

Idle == [r \in Slots |-> "idle"]

InitIn(scn) ==
    /\ scenario = scn
    /\ build \in Builds
    /\ env \in [MCP_API_KEY : KeysOf(scn)]
    /\ pc = Idle
    /\ req = [r \in Slots |-> NoReq]
    /\ stages = [r \in Slots |-> <<>>]
    /\ resp = [r \in Slots |-> <<>>]
    /\ calls = [r \in Slots |-> <<>>]
    /\ inflight = [r \in Slots |-> {}]
    /\ tokRes = [r \in Slots |-> NoRes]
    /\ apexToken = [r \in Slots |-> JsUndefined]
    /\ prodRes = [r \in Slots |-> NoProdRes]
    /\ arrivals = 0
    /\ nAdmitted = 0
    /\ nTokenCalls = 0
    /\ nProductsCalls = 0

Init == InitIn("concurrent")
GateInit == InitIn("gate")
ListingInit == InitIn("listing")

----------------------------------------------------------------------------
(* Actions *)

config == <<scenario, build, env>>
upstreamCounts == <<nAdmitted, nTokenCalls, nProductsCalls>>
locals == <<tokRes, apexToken, prodRes>>

\* the Authorization header of the token call: Basic base64(user:password),
\* the encoded credentials standing as one opaque character
BasicAuth == <<"B", "a", "s", "i", "c", " ", "*">>

Call(ep, auth) == [ep |-> ep, authorization |-> auth]

\* res.status(..).json(..) / res.end(): one response goes out for r
Send(r, response) == resp' = [resp EXCEPT ![r] = Append(@, response)]

\* the request finishes in this run of the handler
Finish(r, response, ran) ==
    /\ Send(r, response)
    /\ stages' = [stages EXCEPT ![r] = ran]
    /\ pc' = [pc EXCEPT ![r] = "done"]

\* A request reaches the server
Arrive(r) ==
    /\ r \in SlotsOf(scenario)
    /\ pc[r] = "idle"
    /\ arrivals < MaxRequests
    /\ \E rq \in RequestsOf(scenario) : req' = [req EXCEPT ![r] = rq]
    /\ pc' = [pc EXCEPT ![r] = "received"]
    /\ arrivals' = arrivals + 1
    /\ UNCHANGED <<config, stages, resp, calls, inflight, locals, upstreamCounts>>

\* express.json() refuses the body: its error reaches Express's error handler
BodyRejected(r) ==
    /\ pc[r] = "received"
    /\ Last(Chain(build, req[r])) = "express.json"
    /\ Finish(r, Response(400, "html", NoErr, <<>>), Chain(build, req[r]))
    /\ UNCHANGED <<config, req, calls, inflight, locals, arrivals, upstreamCounts>>

\* cors() answers an OPTIONS request itself: 204, Content-Length 0.  An
\* OPTIONS request that came past it would be answered by the second CORS
\* middleware of server.js with sendStatus(200), whose body is "OK".
Preflight(r) ==
    /\ pc[r] = "received"
    /\ Last(Chain(build, req[r])) \in {"cors", "corsFix"}
    /\ Finish(r,
              IF Last(Chain(build, req[r])) = "cors"
              THEN Response(204, "none", NoErr, <<>>)
              ELSE Response(200, "text", NoErr, <<>>),
              Chain(build, req[r]))
    /\ UNCHANGED <<config, req, calls, inflight, locals, arrivals, upstreamCounts>>

\* the routes that answer from the request alone
Static(r) ==
    /\ pc[r] = "received"
    /\ Last(Chain(build, req[r])) \in
          {"toolsList", "debug", "debugToolsList", "debugToolsCall", "root"}
    /\ Finish(r, Response(200, "static", NoErr, <<>>), Chain(build, req[r]))
    /\ UNCHANGED <<config, req, calls, inflight, locals, arrivals, upstreamCounts>>

\* no route matches: Express answers 404
NotFound(r) ==
    /\ pc[r] = "received"
    /\ Last(Chain(build, req[r])) = "none"
    /\ Finish(r, Response(404, "html", NoErr, <<>>), Chain(build, req[r]))
    /\ UNCHANGED <<config, req, calls, inflight, locals, arrivals, upstreamCounts>>

\* the gate's branches without their `return`: the refusal is sent and the
\* handler goes on to getAccessToken()
GateRejectNoReturn(r) ==
    /\ pc[r] = "received"
    /\ Last(Chain(build, req[r])) = "toolsCall"
    /\ LET g == Gate(req[r].authorization, env.MCP_API_KEY)
       IN  /\ g # "admit"
           /\ Send(r, IF g = "401"
                      THEN Response(401, "error", Err("fixed", "Unauthorized: Missing Bearer token."), <<>>)
                      ELSE Response(403, "error", Err("fixed", "Forbidden: Invalid API key."), <<>>))
    /\ stages' = [stages EXCEPT ![r] = Chain(build, req[r])]
    /\ calls' = [calls EXCEPT ![r] = Append(@, Call("token", BasicAuth))]
    /\ inflight' = [inflight EXCEPT ![r] = @ \cup {"token"}]
    /\ pc' = [pc EXCEPT ![r] = "awaitToken"]
    /\ nTokenCalls' = nTokenCalls + 1
    /\ UNCHANGED <<config, req, locals, arrivals, nAdmitted, nProductsCalls>>

\* POST /sse/tools/call, the gate refuses: 401 or 403 and return
GateReject(r) ==
    /\ pc[r] = "received"
    /\ Last(Chain(build, req[r])) = "toolsCall"
    /\ LET g == Gate(req[r].authorization, env.MCP_API_KEY)
       IN  /\ g # "admit"
           /\ Finish(r,
                     IF g = "401"
                     THEN Response(401, "error", Err("fixed", "Unauthorized: Missing Bearer token."), <<>>)
                     ELSE Response(403, "error", Err("fixed", "Forbidden: Invalid API key."), <<>>),
                     Chain(build, req[r]))
    /\ UNCHANGED <<config, req, calls, inflight, locals, arrivals, upstreamCounts>>

\* the handler with a module-level token cache: when some request already
\* holds a token, it is reused and fetchProducts is called at once
AdmitCached(r) ==
    /\ pc[r] = "received"
    /\ Last(Chain(build, req[r])) = "toolsCall"
    /\ Gate(req[r].authorization, env.MCP_API_KEY) = "admit"
    /\ stages' = [stages EXCEPT ![r] = Chain(build, req[r])]
    /\ nAdmitted' = nAdmitted + 1
    /\ IF \E q \in Slots : ~Falsy(apexToken[q])
       THEN \E q \in Slots :
              /\ ~Falsy(apexToken[q])
              /\ apexToken' = [apexToken EXCEPT ![r] = apexToken[q]]
              /\ calls' = [calls EXCEPT ![r] =
                    Append(@, Call("products", BearerSp \o ToStr(apexToken[q])))]
              /\ inflight' = [inflight EXCEPT ![r] = @ \cup {"products"}]
              /\ pc' = [pc EXCEPT ![r] = "awaitProducts"]
              /\ nProductsCalls' = nProductsCalls + 1
              /\ UNCHANGED nTokenCalls
       ELSE /\ calls' = [calls EXCEPT ![r] = Append(@, Call("token", BasicAuth))]
            /\ inflight' = [inflight EXCEPT ![r] = @ \cup {"token"}]
            /\ pc' = [pc EXCEPT ![r] = "awaitToken"]
            /\ nTokenCalls' = nTokenCalls + 1
            /\ UNCHANGED <<apexToken, nProductsCalls>>
    /\ UNCHANGED <<config, req, resp, tokRes, prodRes, arrivals>>

\* POST /sse/tools/call, the gate admits: getAccessToken() issues its fetch
Admit(r) ==
    /\ pc[r] = "received"
    /\ Last(Chain(build, req[r])) = "toolsCall"
    /\ Gate(req[r].authorization, env.MCP_API_KEY) = "admit"
    /\ stages' = [stages EXCEPT ![r] = Chain(build, req[r])]
    /\ calls' = [calls EXCEPT ![r] = Append(@, Call("token", BasicAuth))]
    /\ inflight' = [inflight EXCEPT ![r] = @ \cup {"token"}]
    /\ pc' = [pc EXCEPT ![r] = "awaitToken"]
    /\ nAdmitted' = nAdmitted + 1
    /\ nTokenCalls' = nTokenCalls + 1
    /\ UNCHANGED <<config, req, resp, locals, arrivals, nProductsCalls>>

\* the catch block: 500 with the error's message
Catch(r, err) ==
    /\ Send(r, Response(500, "error", err, <<>>))
    /\ pc' = [pc EXCEPT ![r] = "done"]

\* The token endpoint answers; getAccessToken returns or throws, and on a
\* return fetchProducts(apexToken) issues its fetch
TokenReply(r) ==
    /\ pc[r] = "awaitToken"
    /\ "token" \in inflight[r]
    /\ \E res \in TokenResponses :
          LET out == GetAccessTokenResult(res)
          IN  /\ tokRes' = [tokRes EXCEPT ![r] = res]
              /\ IF out.threw
                 THEN /\ Catch(r, out.err)
                      /\ inflight' = [inflight EXCEPT ![r] = @ \ {"token"}]
                      /\ UNCHANGED <<apexToken, calls, nProductsCalls>>
                 ELSE /\ apexToken' = [apexToken EXCEPT ![r] = out.value]
                      /\ calls' = [calls EXCEPT ![r] =
                            Append(@, Call("products", BearerSp \o ToStr(out.value)))]
                      /\ inflight' = [inflight EXCEPT ![r] = (@ \ {"token"}) \cup {"products"}]
                      /\ pc' = [pc EXCEPT ![r] = "awaitProducts"]
                      /\ nProductsCalls' = nProductsCalls + 1
                      /\ UNCHANGED resp
    /\ UNCHANGED <<config, req, stages, prodRes, arrivals, nAdmitted, nTokenCalls>>

\* the handler keeping its result in a module-level variable: the answer is
\* built from the listing another request received last, when there is one
ProductsReplyShared(r) ==
    /\ pc[r] = "awaitProducts"
    /\ "products" \in inflight[r]
    /\ \E res \in ProductResponsesOf(scenario) :
          LET others == {q \in Slots \ {r} : prodRes[q] # NoProdRes}
              used == IF others = {} THEN res ELSE prodRes[CHOOSE q \in others : TRUE]
              out == FetchProductsResult(used)
          IN  /\ prodRes' = [prodRes EXCEPT ![r] = res]
              /\ inflight' = [inflight EXCEPT ![r] = @ \ {"products"}]
              /\ IF out.threw
                 THEN Catch(r, out.err)
                 ELSE /\ Send(r, Response(200, "success", NoErr, SerializeProducts(out.value)))
                      /\ pc' = [pc EXCEPT ![r] = "done"]
    /\ UNCHANGED <<config, req, stages, calls, tokRes, apexToken, arrivals, upstreamCounts>>

\* The products endpoint answers; fetchProducts returns or throws, and the
\* handler answers with the list or with the catch block
ProductsReply(r) ==
    /\ pc[r] = "awaitProducts"
    /\ "products" \in inflight[r]
    /\ \E res \in ProductResponsesOf(scenario) :
          LET out == FetchProductsResult(res)
          IN  /\ prodRes' = [prodRes EXCEPT ![r] = res]
              /\ inflight' = [inflight EXCEPT ![r] = @ \ {"products"}]
              /\ IF out.threw
                 THEN Catch(r, out.err)
                 ELSE /\ Send(r, Response(200, "success", NoErr, SerializeProducts(out.value)))
                      /\ pc' = [pc EXCEPT ![r] = "done"]
    /\ UNCHANGED <<config, req, stages, calls, tokRes, apexToken, arrivals, upstreamCounts>>

\* The exchange is over; the slot can take the next request
Close(r) ==
    /\ pc[r] = "done"
    /\ pc' = [pc EXCEPT ![r] = "idle"]
    /\ req' = [req EXCEPT ![r] = NoReq]
    /\ stages' = [stages EXCEPT ![r] = <<>>]
    /\ resp' = [resp EXCEPT ![r] = <<>>]
    /\ calls' = [calls EXCEPT ![r] = <<>>]
    /\ tokRes' = [tokRes EXCEPT ![r] = NoRes]
    /\ apexToken' = [apexToken EXCEPT ![r] = JsUndefined]
    /\ prodRes' = [prodRes EXCEPT ![r] = NoProdRes]
    /\ UNCHANGED <<config, inflight, arrivals, upstreamCounts>>

Next ==
    \E r \in Slots :
        \/ Arrive(r)
        \/ BodyRejected(r)
        \/ Preflight(r)
        \/ Static(r)
        \/ NotFound(r)
        \/ GateReject(r)
        \/ Admit(r)
        \/ TokenReply(r)
        \/ ProductsReply(r)
        \/ Close(r)

Spec == Init /\ [][Next]_vars
GateSpec == GateInit /\ [][Next]_vars
ListingSpec == ListingInit /\ [][Next]_vars

----------------------------------------------------------------------------
(* Vocabulary of the properties *)

Done(r) == pc[r] = "done"

\* the handler of POST /sse/tools/call ran for r
HandlerRan(r) == stages[r] # <<>> /\ Last(stages[r]) = "toolsCall"

\* r reached the upstream token call
Admitted(r) == calls[r] # <<>>

EpCount(r, ep) == Cardinality({i \in DOMAIN calls[r] : calls[r][i].ep = ep})

GotToken(r) == tokRes[r] # NoRes
GotProducts(r) == prodRes[r] # NoProdRes

TokenFailed(r) == GotToken(r) /\ (tokRes[r].rejected \/ ~tokRes[r].ok)
ProductsFailed(r) == GotProducts(r) /\ (prodRes[r].rejected \/ ~prodRes[r].ok)

\* r received a listing: a success status and a JSON body with items
GotListing(r) ==
    /\ GotProducts(r) /\ ~prodRes[r].rejected /\ prodRes[r].ok
    /\ prodRes[r].body.kind = "json" /\ prodRes[r].body.hasItems

Success(r) == Done(r) /\ Len(resp[r]) = 1 /\ resp[r][1].kind = "success"

Malformed(item) == JSONParse(item.dane_produktu).threw
Unusable(item) == Malformed(item) \/ JSONParse(item.dane_produktu).isNull

\* what the caller should read for one item: the payload's fields that are
\* present, and the item's url
ProductOf(item) ==
    LET o == JSONParse(item.dane_produktu).obj
        present == {f \in Fields : o[f].t = "string"}
    IN  [f \in present \cup {"url"} |-> IF f = "url" THEN item.url.v ELSE o[f].v]

Projected(items) == [i \in 1..Len(items) |-> ProductOf(items[i])]

Prefix(s, n) == SubSeq(s, 1, IF n < Len(s) THEN n ELSE Len(s))

----------------------------------------------------------------------------
(* C1: the gate admits a request if and only if its Authorization header is *)
(* exactly "Bearer " followed by the configured key; every other header is  *)
(* refused with 401 or 403 and makes no upstream call.                      *)
C1_ExactHeaderGate ==
    \A r \in Slots :
        (HandlerRan(r) /\ env.MCP_API_KEY.t = "string" /\ env.MCP_API_KEY.v # <<>>)
        => /\ Admitted(r) <=>
                req[r].authorization = JsStr(BearerSp \o env.MCP_API_KEY.v)
           /\ ~Admitted(r) =>
                /\ Done(r) /\ Len(resp[r]) = 1
                /\ resp[r][1].status \in {401, 403}
                /\ calls[r] = <<>>

(* C10: with MCP_API_KEY unset or empty the gate admits no request: every   *)
(* header is refused with 401 or 403 and no upstream call is made.          *)
C10_EmptyKeyAdmitsNothing ==
    \A r \in Slots :
        (HandlerRan(r) /\ Falsy(env.MCP_API_KEY))
        => /\ calls[r] = <<>>
           /\ Done(r) /\ Len(resp[r]) = 1
           /\ resp[r][1].status \in {401, 403}

----------------------------------------------------------------------------
(* C2, as claimed: for a limit n supplied by the caller the returned list   *)
(* has at most n entries and is the first min(n, length) entries of the     *)
(* projected listing.                                                       *)
C2_LimitCapsList ==
    \A r \in Slots :
        (Success(r) /\ req[r].body.hasLimit)
        => /\ Len(resp[r][1].products) <= req[r].body.limit
           /\ resp[r][1].products =
                Prefix(Projected(prodRes[r].body.items), req[r].body.limit)

(* C2, amended: whatever limit the caller supplies, or none, the returned   *)
(* list is the whole projected upstream listing in upstream order.          *)
C2_WholeListingInOrder ==
    \A r \in Slots :
        Success(r)
        => /\ GotListing(r)
           /\ resp[r][1].products = Projected(prodRes[r].body.items)

C2_Witness ==
    \E r \in Slots :
        /\ Success(r) /\ req[r].body.hasLimit
        /\ req[r].body.limit < Len(resp[r][1].products)
        /\ Len(resp[r][1].products) >= 2
        /\ resp[r][1].products[1] # resp[r][1].products[2]

----------------------------------------------------------------------------
(* C3: when the nested payload of any item of the listing is malformed      *)
(* JSON, at whatever position, the request ends with an error response and  *)
(* no product list; every product of a success response comes from an item  *)
(* that parsed.                                                             *)
C3_MalformedFailsWhole ==
    \A r \in Slots :
        /\ GotListing(r) /\ (\E i \in DOMAIN prodRes[r].body.items :
                                Malformed(prodRes[r].body.items[i]))
           => /\ Done(r) /\ Len(resp[r]) = 1
              /\ resp[r][1].status = 500 /\ resp[r][1].kind = "error"
              /\ resp[r][1].products = <<>>
        /\ Success(r)
           => /\ GotListing(r)
              /\ Len(resp[r][1].products) = Len(prodRes[r].body.items)
              /\ \A i \in DOMAIN prodRes[r].body.items :
                    ~Malformed(prodRes[r].body.items[i])

C3_Witness ==
    \E r \in Slots :
        /\ Done(r) /\ GotListing(r) /\ resp[r][1].status = 500
        /\ Len(prodRes[r].body.items) = 3
        /\ ~Unusable(prodRes[r].body.items[1])
        /\ ~Unusable(prodRes[r].body.items[2])
        /\ Malformed(prodRes[r].body.items[3])

----------------------------------------------------------------------------
(* C4: getAccessToken has two outcomes: on a success status it returns a    *)
(* non-empty string token, with which the products call is issued; on a     *)
(* non-success status it fails with the raw body and the products call is   *)
(* not issued.  The products call is never issued without a token.          *)
C4_TokenNonEmptyOrError ==
    \A r \in Slots :
        (GotToken(r) /\ ~tokRes[r].rejected)
        => IF tokRes[r].ok
           THEN /\ apexToken[r].t = "string" /\ apexToken[r].v # <<>>
                /\ EpCount(r, "products") = 1
           ELSE /\ Done(r) /\ Len(resp[r]) = 1
                /\ resp[r][1].status = 500
                /\ resp[r][1].error.text = tokRes[r].body
                /\ EpCount(r, "products") = 0

----------------------------------------------------------------------------
(* C5: every request to POST /sse/tools/call gets one terminal response and *)
(* never two, and no upstream call is made twice: 401 or 403 when the gate  *)
(* refuses, 500 with the diagnostic text when the token call or the         *)
(* products call fails or a payload does not parse, and a success response  *)
(* only when the gate admitted, both calls succeeded and every item parsed. *)
C5_OneTerminalResponse ==
    \A r \in Slots :
        /\ Len(resp[r]) <= 1
        /\ Done(r) <=> Len(resp[r]) = 1
        /\ EpCount(r, "token") <= 1
        /\ EpCount(r, "products") <= 1
        /\ (Done(r) /\ HandlerRan(r))
           => LET a == resp[r][1]
                  g == Gate(req[r].authorization, env.MCP_API_KEY)
              IN  /\ a.status \in {200, 401, 403, 500}
                  /\ g # "admit" => a.status \in {401, 403} /\ calls[r] = <<>>
                  /\ TokenFailed(r)
                     => a.status = 500 /\ a.error.text = tokRes[r].body
                  /\ ProductsFailed(r)
                     => a.status = 500 /\ a.error.text = prodRes[r].body.text
                  /\ (GotListing(r) /\ \E i \in DOMAIN prodRes[r].body.items :
                                          Malformed(prodRes[r].body.items[i]))
                     => a.status = 500
                  /\ a.status = 200
                     => /\ a.kind = "success" /\ g = "admit"
                        /\ GotToken(r) /\ ~TokenFailed(r)
                        /\ GotListing(r)
                        /\ \A i \in DOMAIN prodRes[r].body.items :
                              ~Unusable(prodRes[r].body.items[i])

C5_Witness ==
    \E r \in Slots :
        /\ Done(r) /\ HandlerRan(r) /\ ProductsFailed(r)
        /\ resp[r][1].status = 500
        /\ Len(calls[r]) = 2

----------------------------------------------------------------------------
(* C6, as claimed: every OPTIONS request is answered by cors() with a       *)
(* success status and no body, before any route handler runs and without    *)
(* any upstream call.                                                       *)
C6_OptionsAlwaysBareSuccess ==
    \A r \in Slots :
        (req[r].method = "OPTIONS" /\ pc[r] # "received")
        => /\ Done(r) /\ Len(resp[r]) = 1
           /\ resp[r][1].status \in 200..299 /\ resp[r][1].kind = "none"
           /\ Last(stages[r]) = "cors"
           /\ calls[r] = <<>>

(* C6, amended: an OPTIONS request whose body express.json() accepts is     *)
(* answered 204 with no body by cors(); one whose JSON body is malformed is *)
(* answered 400 by express.json(), which runs first.  In both cases no      *)
(* route handler runs, the gate is not evaluated and no upstream call is    *)
(* made.                                                                    *)
C6_OptionsAnsweredBeforeRoutes ==
    \A r \in Slots :
        (req[r].method = "OPTIONS" /\ pc[r] # "received")
        => /\ Done(r)
           /\ calls[r] = <<>> /\ inflight[r] = {}
           /\ \A i \in DOMAIN stages[r] : stages[r][i] \in {"express.json", "cors"}
           /\ IF req[r].body.kind = "malformed"
              THEN /\ stages[r] = <<"express.json">>
                   /\ resp[r] = <<Response(400, "html", NoErr, <<>>)>>
              ELSE /\ stages[r] = <<"express.json", "cors">>
                   /\ resp[r] = <<Response(204, "none", NoErr, <<>>)>>

C6_Witness ==
    \E r \in Slots :
        /\ Done(r) /\ req[r].method = "OPTIONS"
        /\ req[r].path = "/sse/tools/call"
        /\ req[r].authorization = JsStr(BearerSp \o env.MCP_API_KEY.v)
        /\ env.MCP_API_KEY.v # <<>>
        /\ resp[r][1].status = 204

----------------------------------------------------------------------------
(* C7: no token is cached or reused.  The token endpoint has been called    *)
(* once per request the gate admitted, and the bearer token of every        *)
(* products call is the access_token of the token response received by the  *)
(* same request.                                                            *)
C7_FreshTokenPerRequest ==
    /\ nTokenCalls = nAdmitted
    /\ \A r \in Slots :
          /\ Admitted(r) => calls[r][1].ep = "token"
          /\ \A i \in DOMAIN calls[r] :
                calls[r][i].ep = "products"
                => /\ GotToken(r) /\ ~tokRes[r].rejected
                   /\ calls[r][i].authorization =
                        BearerSp \o ToStr(TokenJson(tokRes[r].body).access_token)

C7_Witness ==
    /\ nTokenCalls = 2
    /\ \A r \in Slots : Len(calls[r]) = 2
    /\ calls[1][2].authorization = BearerSp \o <<"t", "1">>
    /\ calls[2][2].authorization = BearerSp \o <<"t", "2">>

----------------------------------------------------------------------------
(* C8: an admitted request makes at most one token call and at most one     *)
(* products call, in that order; the products call is issued only after the *)
(* request's token call returned with a success status, the two are never   *)
(* in flight together, and after a failed token call no products call is    *)
(* issued.                                                                  *)
C8_TokenThenProducts ==
    \A r \in Slots :
        /\ [i \in DOMAIN calls[r] |-> calls[r][i].ep]
              \in {<<>>, <<"token">>, <<"token", "products">>}
        /\ Cardinality(inflight[r]) <= 1
        /\ EpCount(r, "products") > 0
           => /\ GotToken(r) /\ ~tokRes[r].rejected /\ tokRes[r].ok
              /\ "token" \notin inflight[r]
        /\ TokenFailed(r) => EpCount(r, "products") = 0

C8_Witness ==
    \E r, q \in Slots :
        /\ pc[r] = "awaitProducts" /\ inflight[r] = {"products"}
        /\ Len(calls[r]) = 2
        /\ Done(q) /\ TokenFailed(q) /\ Len(calls[q]) = 1

----------------------------------------------------------------------------
(* C9: requests do not interfere.  At every moment the responses sent for a *)
(* request and the upstream calls made for it are a function of that        *)
(* request alone: its method, path, header and body, and the upstream       *)
(* answers to its own token and products calls.                             *)

\* what a request has been answered and has called upstream, from its own
\* inputs: tres and pres are the answers it has received so far
OwnOutcome(b, key, rq, tres, pres) ==
    LET ch == Chain(b, rq)
        who == Last(ch)
        tok == GetAccessTokenResult(tres)
        prod == FetchProductsResult(pres)
        tokenCall == Call("token", BasicAuth)
        productsCall == Call("products", BearerSp \o ToStr(tok.value))
    IN  CASE who = "express.json" ->
                [resp |-> <<Response(400, "html", NoErr, <<>>)>>, calls |-> <<>>]
          [] who = "cors" ->
                [resp |-> <<Response(204, "none", NoErr, <<>>)>>, calls |-> <<>>]
          [] who = "none" ->
                [resp |-> <<Response(404, "html", NoErr, <<>>)>>, calls |-> <<>>]
          [] who = "toolsCall" /\ Gate(rq.authorization, key) = "401" ->
                [resp |-> <<Response(401, "error",
                             Err("fixed", "Unauthorized: Missing Bearer token."), <<>>)>>,
                 calls |-> <<>>]
          [] who = "toolsCall" /\ Gate(rq.authorization, key) = "403" ->
                [resp |-> <<Response(403, "error",
                             Err("fixed", "Forbidden: Invalid API key."), <<>>)>>,
                 calls |-> <<>>]
          [] who = "toolsCall" /\ Gate(rq.authorization, key) = "admit" ->
                IF tres = NoRes THEN [resp |-> <<>>, calls |-> <<tokenCall>>]
                ELSE IF tok.threw
                THEN [resp |-> <<Response(500, "error", tok.err, <<>>)>>,
                      calls |-> <<tokenCall>>]
                ELSE IF pres = NoProdRes
                THEN [resp |-> <<>>, calls |-> <<tokenCall, productsCall>>]
                ELSE IF prod.threw
                THEN [resp |-> <<Response(500, "error", prod.err, <<>>)>>,
                      calls |-> <<tokenCall, productsCall>>]
                ELSE [resp |-> <<Response(200, "success", NoErr,
                                          Projected(pres.body.items))>>,
                      calls |-> <<tokenCall, productsCall>>]
          [] OTHER ->
                [resp |-> <<Response(200, "static", NoErr, <<>>)>>, calls |-> <<>>]

C9_OwnInputsOnly ==
    \A r \in Slots :
        IF pc[r] \in {"idle", "received"}
        THEN resp[r] = <<>> /\ calls[r] = <<>>
        ELSE LET own == OwnOutcome(build, env.MCP_API_KEY, req[r], tokRes[r], prodRes[r])
             IN  resp[r] = own.resp /\ calls[r] = own.calls

C9_Witness ==
    /\ Done(1) /\ Success(1) /\ Len(resp[1][1].products) = 1
    /\ Done(2) /\ GotListing(2) /\ resp[2][1].status = 500
    /\ req[1] = req[2]

====
